---- MODULE Spec2Model ----
(***************************************************************************)
(* Verification model of big-ai: the streaming chat route                  *)
(* (app/api/chat/route.ts), the conversation store (lib/history.ts), the   *)
(* dictation hook (hooks/useSpeechRecognition.ts) and its two users, the   *)
(* chat view (components/ChatArea.tsx) and the conversation loop           *)
(* (components/ConversationModeOverlay.tsx).                               *)
(*                                                                         *)
(* Text is a sequence of one-character strings; a chunk on the wire is a   *)
(* sequence of bytes.                                                      *)
(***************************************************************************)
EXTENDS Integers, Sequences, FiniteSets, TLC

VARIABLES
    store,      \* Firestore collection 'conversations': chat id -> document
    req,        \* the POST /api/chat invocations, one record per request
    clock,      \* Date.now()
    uuid,       \* number of uuidv4() values drawn so far
    lastCall,   \* outcome of the latest DELETE request or direct library call
    ui          \* the mounted client component: React state, refs, the engine

serverVars == <<store, req, clock, uuid, lastCall>>

vars == <<store, req, clock, uuid, lastCall, ui>>

----------------------------------------------------------------------------
(* Bounds of the model *)

MaxReq == 2        \* POST requests per behaviour
MaxChunks == 3     \* chunks the backend yields in the exchange Spec follows
MaxBurst == 1      \* chunks the backend yields per request in SpecSeq and SpecRace
MaxCalls == 3      \* library calls per behaviour of SpecHistory

----------------------------------------------------------------------------
(* Text helpers *)

Min(a, b) == IF a < b THEN a ELSE b

IsSpace(c) == c = " "

RECURSIVE TrimStart(_)
TrimStart(s) ==
    IF s = <<>> THEN <<>>
    ELSE IF IsSpace(Head(s)) THEN TrimStart(Tail(s)) ELSE s

RECURSIVE TrimEnd(_)
TrimEnd(s) ==
    IF s = <<>> THEN <<>>
    ELSE IF IsSpace(s[Len(s)]) THEN TrimEnd(SubSeq(s, 1, Len(s) - 1)) ELSE s

\* String.prototype.trim
Trim(s) == TrimEnd(TrimStart(s))

\* String.prototype.split(/\s+/): the pieces between maximal runs of
\* whitespace; a leading or trailing run leaves an empty piece, and the
\* result always has at least one piece.
RECURSIVE SplitFrom(_, _, _)
SplitFrom(s, cur, inRun) ==
    IF s = <<>> THEN <<cur>>
    ELSE IF IsSpace(Head(s))
         THEN IF inRun THEN SplitFrom(Tail(s), cur, TRUE)
                       ELSE <<cur>> \o SplitFrom(Tail(s), <<>>, TRUE)
         ELSE SplitFrom(Tail(s), Append(cur, Head(s)), FALSE)

SplitWs(s) == SplitFrom(s, <<>>, FALSE)

\* Array.prototype.join(' ')
RECURSIVE JoinSp(_)
JoinSp(ws) ==
    IF ws = <<>> THEN <<>>
    ELSE IF Len(ws) = 1 THEN ws[1]
    ELSE ws[1] \o <<" ">> \o JoinSp(Tail(ws))

RECURSIVE Flatten(_)
Flatten(ss) == IF ss = <<>> THEN <<>> ELSE Head(ss) \o Flatten(Tail(ss))

Ellipsis == <<".", ".", ".">>
NewChatTitle == <<"N", "e", "w", " ", "C", "h", "a", "t">>

\* lib/history.ts generateTitle: split(/\s+/).slice(0, 6), join(' '), the
\* ellipsis when words.length > 5, and "New Chat" for an empty title.
generateTitle(firstMessage) ==
    LET all   == SplitWs(firstMessage)
        words == SubSeq(all, 1, Min(6, Len(all)))
        title == JoinSp(words) \o (IF Len(words) > 5 THEN Ellipsis ELSE <<>>)
    IN  IF title = <<>> THEN NewChatTitle ELSE title

----------------------------------------------------------------------------
(* UTF-8: TextEncoder.encode and TextDecoder.decode (no stream option, so  *)
(* every call decodes its chunk on its own).  Characters of the model: 'a' *)
(* (one byte) and U+00E9 (two bytes); a malformed byte decodes to U+FFFD.  *)

EncodeChar(c) == IF c = "U+00E9" THEN <<195, 169>> ELSE <<97>>

RECURSIVE Encode(_)
Encode(text) ==
    IF text = <<>> THEN <<>> ELSE EncodeChar(Head(text)) \o Encode(Tail(text))

RECURSIVE Decode(_)
Decode(bytes) ==
    IF bytes = <<>> THEN <<>>
    ELSE IF Head(bytes) < 128 THEN <<"a">> \o Decode(Tail(bytes))
    ELSE IF Head(bytes) = 195 /\ Len(bytes) >= 2 /\ bytes[2] = 169
         THEN <<"U+00E9">> \o Decode(Tail(Tail(bytes)))
    ELSE <<"U+FFFD">> \o Decode(Tail(bytes))

----------------------------------------------------------------------------
(* lib/history.ts: the conversation store *)

Users == {"alice", "bob"}
NoUser == "unauthenticated"      \* getAuthId(req) returned null

NoChat == 0                      \* the request carries no chatId
UnknownChat == 0 - 1             \* a chat id no document has

IsEven(n) == n % 2 = 0

Message(id, role, text, files) ==
    [id |-> id, role |-> role, text |-> text, files |-> files]

\* admin.firestore.FieldValue.arrayUnion: appends, in order, the elements
\* that are not already in the array.
RECURSIVE ArrayUnion(_, _)
ArrayUnion(arr, elems) ==
    IF elems = <<>> THEN arr
    ELSE IF \E i \in 1..Len(arr) : arr[i] = Head(elems)
         THEN ArrayUnion(arr, Tail(elems))
         ELSE ArrayUnion(Append(arr, Head(elems)), Tail(elems))

\* getConversation: null for a missing document and for another owner's.
Found(st, chatId, userId) ==
    chatId \in DOMAIN st /\ st[chatId].userId = userId

\* createConversation: the document written by docRef.set.
NewConversation(userId, firstMessage, files, msgId, now) ==
    [userId    |-> userId,
     createdAt |-> now,
     updatedAt |-> now,
     title     |-> generateTitle(firstMessage),
     messages  |-> <<Message(msgId, "user", firstMessage, files)>>]

UpdateAuthorizedAnyone(st, chatId, userId) == chatId \in DOMAIN st

\* updateConversation: the access check in front of the update.
UpdateAuthorized(st, chatId, userId) ==
    chatId \in DOMAIN st /\ st[chatId].userId = userId

MessagesToAppendBoth(isFirstExchange, userMessage, modelMessage) ==
    <<userMessage, modelMessage>>

\* updateConversation: messagesToAppend.
MessagesToAppend(isFirstExchange, userMessage, modelMessage) ==
    IF isFirstExchange THEN <<modelMessage>>
    ELSE <<userMessage, modelMessage>>

\* updateConversation: docRef.update(updateData) applied to the document.
UpdatedDoc(doc, u) ==
    [doc EXCEPT
        !.messages  = ArrayUnion(@, MessagesToAppend(u.first,
                          Message(u.userMsgId, "user", u.userText, u.files),
                          Message(u.modelMsgId, "model", u.modelText, 0))),
        !.updatedAt = u.now,
        !.title     = IF u.first THEN generateTitle(u.userText) ELSE @]

\* deleteConversation: the ownership check in front of docRef.delete().
DeleteAuthorized(st, chatId, userId) ==
    chatId \in DOMAIN st /\ st[chatId].userId = userId

Without(st, chatId) == [c \in DOMAIN st \ {chatId} |-> st[c]]

----------------------------------------------------------------------------
(* app/api/chat/route.ts: POST, one record per invocation *)

Reqs == DOMAIN req     \* the invocations a behaviour follows

\* Request bodies: <<message, number of files>>.
Bodies == { <<<<>>, 0>>, <<<<" ">>, 0>>, <<<<" ">>, 1>>, <<<<"h", "i">>, 0>> }

\* chunk.text values the generation backend yields.
ChunkTexts == { <<>>, <<"a">>, <<"U+00E9">> }

IdleReq ==
    [pc |-> "idle", user |-> NoUser, bodyOk |-> TRUE, msg |-> <<>>, files |-> 0,
     inChat |-> NoChat, chatId |-> NoChat, first |-> FALSE,
     status |-> 0, header |-> NoChat,
     up |-> "none", yielded |-> <<>>,
     clientQ |-> <<>>, histQ |-> <<>>,
     client |-> "none", clientGot |-> <<>>,
     drain |-> "none", full |-> <<>>, upd |-> <<>>]

\* NextResponse.json({error}, {status}) and the return of the handler.
Respond(r, status) == [r EXCEPT !.pc = "done", !.status = status]

BlankUntrimmed(message) == message = <<>>

\* Line 106: !message || message.trim() === ''
Blank(message) == Trim(message) = <<>>

\* Lines 98-111: authentication, body parsing and validation.

PostReceive(i) ==
    /\ req[i].pc = "idle"
    /\ \A j \in Reqs : j < i => req[j].pc # "idle"
    /\ \/ req' = [req EXCEPT ![i] = Respond(@, 401)]
       \/ \E u \in Users :
            req' = [req EXCEPT ![i] = Respond([@ EXCEPT !.user = u, !.bodyOk = FALSE], 500)]
       \/ \E u \in Users, b \in Bodies :
            LET in == [req[i] EXCEPT !.user = u, !.msg = b[1], !.files = b[2]] IN
            IF Blank(b[1]) /\ b[2] = 0
            THEN req' = [req EXCEPT ![i] = Respond(in, 400)]
            ELSE \E c \in {NoChat, UnknownChat} \cup DOMAIN store :
                   req' = [req EXCEPT ![i] =
                              [in EXCEPT !.inChat = c, !.chatId = c,
                                         !.pc = IF c # NoChat THEN "getConv" ELSE "create"]]
    /\ UNCHANGED <<store, clock, uuid, lastCall, ui>>

\* Lines 117-121: getConversation(chatId, userId), 404 when it returns null.
GetConv(i) ==
    /\ req[i].pc = "getConv"
    /\ req' = [req EXCEPT ![i] =
                  IF Found(store, req[i].chatId, req[i].user)
                  THEN [@ EXCEPT !.pc = "generate"]
                  ELSE Respond(@, 404)]
    /\ UNCHANGED <<store, clock, uuid, lastCall, ui>>

\* Lines 122-136: getSettings, then createConversation.
CreateConv(i) ==
    /\ req[i].pc = "create"
    /\ LET chatId == uuid + 1
           msgId  == uuid + 2
       IN /\ store' = store @@ (chatId :>
                         NewConversation(req[i].user, req[i].msg, req[i].files, msgId, clock))
          /\ req' = [req EXCEPT ![i] =
                        [@ EXCEPT !.chatId = chatId, !.first = TRUE, !.pc = "generate"]]
    /\ uuid' = uuid + 2
    /\ clock' = clock + 1
    /\ UNCHANGED <<lastCall, ui>>

\* getSettings or the document write of createConversation rejects: the
\* outer catch answers 500 (lines 202-205).
CreateFail(i) ==
    /\ req[i].pc = "create"
    /\ req' = [req EXCEPT ![i] = Respond(@, 500)]
    /\ UNCHANGED <<store, clock, uuid, lastCall, ui>>

\* Lines 159-200: the stream is returned, split by tee(), the history task
\* is started and the response goes out with status 200 and X-Chat-ID.
GenerateOk(i) ==
    /\ req[i].pc = "generate"
    /\ req' = [req EXCEPT ![i] =
                  [@ EXCEPT !.pc = "done", !.status = 200, !.header = req[i].chatId,
                            !.up = "open", !.client = "reading", !.drain = "reading"]]
    /\ UNCHANGED <<store, clock, uuid, lastCall, ui>>

\* ai.models.generateContentStream rejects before any stream exists.
GenerateFail(i) ==
    /\ req[i].pc = "generate"
    /\ req' = [req EXCEPT ![i] = Respond(@, 500)]
    /\ UNCHANGED <<store, clock, uuid, lastCall, ui>>

----------------------------------------------------------------------------
(* The generation stream (lib/gemini.ts) and its two branches.  tee() hands *)
(* every chunk of the source to the queue of each branch that has not been  *)
(* cancelled; closing the source closes both branches once their queues are *)
(* drained; an error of the source errors both branches and drops what is   *)
(* still queued on them.                                                    *)

TeeEnqueueNothing(queue, chunk) == queue

\* One branch of stream.tee() receiving a chunk.
TeeEnqueue(queue, chunk) == Append(queue, chunk)

\* generateStreamingResponse, lines 126-131: one turn of the for-await loop;
\* a chunk with empty text is not enqueued.
YieldOf(i, texts, max) ==
    /\ req[i].up = "open"
    /\ Len(req[i].yielded) < max
    /\ \E text \in texts :
         req' = [req EXCEPT ![i] =
            [@ EXCEPT !.yielded = Append(@, text),
                      !.histQ   = IF text # <<>> THEN TeeEnqueue(@, Encode(text)) ELSE @,
                      !.clientQ = IF text # <<>> /\ req[i].client # "cancelled"
                                  THEN TeeEnqueue(@, Encode(text)) ELSE @]]
    /\ UNCHANGED <<store, clock, uuid, lastCall, ui>>

Yield(i) == YieldOf(i, ChunkTexts, MaxChunks)

\* generateStreamingResponse, line 132: controller.close().
UpstreamClose(i) ==
    /\ req[i].up = "open"
    /\ req' = [req EXCEPT ![i].up = "closed"]
    /\ UNCHANGED <<store, clock, uuid, lastCall, ui>>

\* The backend's iterator throws inside start(): the stream is errored.
UpstreamError(i) ==
    /\ req[i].up = "open"
    /\ req' = [req EXCEPT ![i] = [@ EXCEPT !.up = "errored", !.histQ = <<>>, !.clientQ = <<>>]]
    /\ UNCHANGED <<store, clock, uuid, lastCall, ui>>

\* The transport reads the body of the response (clientStream).
ClientRead(i) ==
    /\ req[i].client = "reading"
    /\ \/ /\ req[i].up = "errored"
          /\ req' = [req EXCEPT ![i].client = "errored"]
       \/ /\ req[i].up # "errored"
          /\ req[i].clientQ # <<>>
          /\ req' = [req EXCEPT ![i] = [@ EXCEPT !.clientGot = Append(@, Head(req[i].clientQ)),
                                                 !.clientQ = Tail(@)]]
       \/ /\ req[i].up = "closed"
          /\ req[i].clientQ = <<>>
          /\ req' = [req EXCEPT ![i].client = "done"]
    /\ UNCHANGED <<store, clock, uuid, lastCall, ui>>

\* The caller goes away: the transport cancels its branch.
ClientCancel(i) ==
    /\ req[i].client = "reading"
    /\ req' = [req EXCEPT ![i] = [@ EXCEPT !.client = "cancelled", !.clientQ = <<>>]]
    /\ UNCHANGED <<store, clock, uuid, lastCall, ui>>

AccumulateLast(fullBotResponse, value) == Decode(value)

\* Line 179: fullBotResponse += decoder.decode(value).
Accumulate(fullBotResponse, value) == fullBotResponse \o Decode(value)

HistReadUntilEmpty(i) ==
    /\ req[i].drain = "reading"
    /\ \/ /\ req[i].up = "errored"
          /\ req' = [req EXCEPT ![i].drain = "readFailed"]
       \/ /\ req[i].up # "errored"
          /\ req[i].histQ # <<>>
          /\ req' = [req EXCEPT ![i] = [@ EXCEPT !.full = Accumulate(@, Head(req[i].histQ)),
                                                 !.histQ = Tail(@)]]
       \/ /\ req[i].histQ = <<>>
          /\ req' = [req EXCEPT ![i].drain = "updGet"]
    /\ UNCHANGED <<store, clock, uuid, lastCall, ui>>

\* Lines 176-180 and 186-188: one reader.read() of the history task.
HistRead(i) ==
    /\ req[i].drain = "reading"
    /\ \/ /\ req[i].up = "errored"
          /\ req' = [req EXCEPT ![i].drain = "readFailed"]
       \/ /\ req[i].up # "errored"
          /\ req[i].histQ # <<>>
          /\ req' = [req EXCEPT ![i] = [@ EXCEPT !.full = Accumulate(@, Head(req[i].histQ)),
                                                 !.histQ = Tail(@)]]
       \/ /\ req[i].up = "closed"
          /\ req[i].histQ = <<>>
          /\ req' = [req EXCEPT ![i].drain = "updGet"]
    /\ UNCHANGED <<store, clock, uuid, lastCall, ui>>

\* updateConversation, lines 141-165, called from line 184: docRef.get(),
\* the access check, and the two messages built from Date.now() and uuidv4().
UpdGet(i) ==
    /\ req[i].drain = "updGet"
    /\ IF UpdateAuthorized(store, req[i].chatId, req[i].user)
       THEN /\ req' = [req EXCEPT ![i] = [@ EXCEPT !.drain = "updWrite",
                         !.upd = [first |-> req[i].first, userText |-> req[i].msg,
                                  files |-> req[i].files, modelText |-> req[i].full,
                                  userMsgId |-> uuid + 1, modelMsgId |-> uuid + 2,
                                  now |-> clock]]]
            /\ uuid' = uuid + 2
            /\ clock' = clock + 1
       ELSE /\ req' = [req EXCEPT ![i].drain = "denied"]
            /\ UNCHANGED <<uuid, clock>>
    /\ UNCHANGED <<store, lastCall, ui>>

\* updateConversation, line 188: docRef.update(updateData), which rejects
\* when the document is gone.
UpdWrite(i) ==
    /\ req[i].drain = "updWrite"
    /\ IF req[i].chatId \in DOMAIN store
       THEN /\ store' = [store EXCEPT ![req[i].chatId] = UpdatedDoc(@, req[i].upd)]
            /\ req' = [req EXCEPT ![i].drain = "saved"]
       ELSE /\ req' = [req EXCEPT ![i].drain = "writeFailed"]
            /\ UNCHANGED store
    /\ UNCHANGED <<clock, uuid, lastCall, ui>>

UpdWriteFailEscapes(i) ==
    /\ req[i].drain = "updWrite"
    /\ req' = [req EXCEPT ![i] = [@ EXCEPT !.drain = "writeFailed", !.status = 500]]
    /\ UNCHANGED <<store, clock, uuid, lastCall, ui>>

\* The store rejects the write; the task's catch logs it (lines 186-188).
UpdWriteFail(i) ==
    /\ req[i].drain = "updWrite"
    /\ req' = [req EXCEPT ![i].drain = "writeFailed"]
    /\ UNCHANGED <<store, clock, uuid, lastCall, ui>>

\* DELETE /api/chat (lines 67-93) with deleteConversation (lines 194-204):
\* the document goes only when the caller owns it; 401, 400 and 403 leave
\* the store as it is.
DeleteRoute ==
    /\ \E u \in Users \cup {NoUser}, c \in {NoChat, UnknownChat} \cup DOMAIN store :
         IF u # NoUser /\ c # NoChat /\ DeleteAuthorized(store, c, u)
         THEN store' = Without(store, c)
         ELSE UNCHANGED store
    /\ UNCHANGED <<req, clock, uuid, lastCall, ui>>


\* A request whose handler, transport and history task are all at rest.
Quiet(r) ==
    /\ r.pc \in {"idle", "done"}
    /\ r.client # "reading"
    /\ r.drain \notin {"reading", "updGet", "updWrite"}

\* The invocation is over and its locals are released.
Forget(i) ==
    /\ req[i].pc = "done"
    /\ Quiet(req[i])
    /\ req' = [req EXCEPT ![i] = [IdleReq EXCEPT !.pc = "gone"]]
    /\ UNCHANGED <<store, clock, uuid, lastCall, ui>>

\* The caller sends an exchange after the previous one has run to its end.
Exchange(i) ==
    /\ \A j \in Reqs : req[j].pc \in {"idle", "gone"}
    /\ PostReceive(i)

\* The backend of SpecSeq and SpecRace: short answers in one-byte characters.
YieldShort(i) == YieldOf(i, {<<"a">>}, MaxBurst)

----------------------------------------------------------------------------
(* SpecHistory: lib/history.ts called directly, one call after the other,  *)
(* with any user id and chat id.                                           *)

LibTexts ==
    { <<"h", "i">>,
      <<"a", " ", "b", " ", "c", " ", "d", " ", "e", " ", "f">>,
      <<"a", " ", "b", " ", "c", " ", "d", " ", "e", " ", "f", " ", "g">> }

ModelText == <<"o", "k">>

Call(n, op, user, chat, text, first, result) ==
    [n |-> n, op |-> op, user |-> user, chat |-> chat, text |-> text,
     first |-> first, result |-> result]

NoCall == Call(0, "none", NoUser, NoChat, <<>>, FALSE, "none")

\* createConversation(userId, firstMessage)
LibCreate ==
    /\ lastCall.n < MaxCalls
    /\ \E u \in Users, text \in LibTexts :
         /\ store' = store @@ ((uuid + 1) :> NewConversation(u, text, 0, uuid + 2, clock))
         /\ lastCall' = Call(lastCall.n + 1, "create", u, uuid + 1, text, FALSE, "ok")
    /\ uuid' = uuid + 2
    /\ clock' = clock + 1
    /\ UNCHANGED <<req, ui>>

\* updateConversation(chatId, userText, modelText, userId, [], isFirstExchange)
LibUpdate ==
    /\ lastCall.n < MaxCalls
    /\ \E u \in Users, c \in DOMAIN store \cup {UnknownChat}, text \in LibTexts,
          isFirst \in BOOLEAN :
         IF UpdateAuthorized(store, c, u)
         THEN /\ store' = [store EXCEPT ![c] = UpdatedDoc(@,
                              [first |-> isFirst, userText |-> text, files |-> 0,
                               modelText |-> ModelText, userMsgId |-> uuid + 1,
                               modelMsgId |-> uuid + 2, now |-> clock])]
              /\ lastCall' = Call(lastCall.n + 1, "update", u, c, text, isFirst, "ok")
              /\ uuid' = uuid + 2
              /\ clock' = clock + 1
         ELSE /\ lastCall' = Call(lastCall.n + 1, "update", u, c, text, isFirst, "error")
              /\ UNCHANGED <<store, uuid, clock>>
    /\ UNCHANGED <<req, ui>>

\* deleteConversation(chatId, userId)
LibDelete ==
    /\ lastCall.n < MaxCalls
    /\ \E u \in Users, c \in DOMAIN store \cup {UnknownChat} :
         IF DeleteAuthorized(store, c, u)
         THEN /\ store' = Without(store, c)
              /\ lastCall' = Call(lastCall.n + 1, "delete", u, c, <<>>, FALSE, "ok")
         ELSE /\ lastCall' = Call(lastCall.n + 1, "delete", u, c, <<>>, FALSE, "error")
              /\ UNCHANGED store
    /\ UNCHANGED <<req, uuid, clock, ui>>

\* No client component is mounted: the server is driven directly.
Unmounted == [host |-> "none"]

InitWith(slots) ==
    /\ ui = Unmounted
    /\ store = <<>>
    /\ req = [i \in slots |-> IdleReq]
    /\ clock = 1
    /\ uuid = 0
    /\ lastCall = NoCall

\* Spec: one exchange on an empty store, its stream followed chunk by chunk.
Init == InitWith({1})

Next ==
    \/ \E i \in Reqs : PostReceive(i)
    \/ \E i \in Reqs : GetConv(i)
    \/ \E i \in Reqs : CreateConv(i)
    \/ \E i \in Reqs : CreateFail(i)
    \/ \E i \in Reqs : GenerateOk(i)
    \/ \E i \in Reqs : GenerateFail(i)
    \/ \E i \in Reqs : Yield(i)
    \/ \E i \in Reqs : UpstreamClose(i)
    \/ \E i \in Reqs : UpstreamError(i)
    \/ \E i \in Reqs : ClientRead(i)
    \/ \E i \in Reqs : ClientCancel(i)
    \/ \E i \in Reqs : HistRead(i)
    \/ \E i \in Reqs : UpdGet(i)
    \/ \E i \in Reqs : UpdWrite(i)
    \/ \E i \in Reqs : UpdWriteFail(i)
    \/ DeleteRoute

Spec == Init /\ [][Next]_vars

\* SpecDrain: the same exchange, the history task and the calls it awaits
\* being scheduled as long as they have something to do.
HistoryTask ==
    \E i \in Reqs : HistRead(i) \/ UpdGet(i) \/ UpdWrite(i) \/ UpdWriteFail(i)

SpecDrain == Spec /\ WF_vars(HistoryTask)

\* SpecSeq: MaxReq exchanges sent one after the other.
InitSeq == InitWith(1..MaxReq)

NextSeq ==
    \/ \E i \in Reqs : Exchange(i)
    \/ \E i \in Reqs : Forget(i)
    \/ \E i \in Reqs : GetConv(i)
    \/ \E i \in Reqs : CreateConv(i)
    \/ \E i \in Reqs : CreateFail(i)
    \/ \E i \in Reqs : GenerateOk(i)
    \/ \E i \in Reqs : GenerateFail(i)
    \/ \E i \in Reqs : YieldShort(i)
    \/ \E i \in Reqs : UpstreamClose(i)
    \/ \E i \in Reqs : UpstreamError(i)
    \/ \E i \in Reqs : ClientRead(i)
    \/ \E i \in Reqs : ClientCancel(i)
    \/ \E i \in Reqs : HistRead(i)
    \/ \E i \in Reqs : UpdGet(i)
    \/ \E i \in Reqs : UpdWrite(i)
    \/ \E i \in Reqs : UpdWriteFail(i)
    \/ DeleteRoute

SpecSeq == InitSeq /\ [][NextSeq]_vars

\* SpecRace: MaxReq requests that may overlap.
NextRace ==
    \/ \E i \in Reqs : PostReceive(i)
    \/ \E i \in Reqs : GetConv(i)
    \/ \E i \in Reqs : CreateConv(i)
    \/ \E i \in Reqs : CreateFail(i)
    \/ \E i \in Reqs : GenerateOk(i)
    \/ \E i \in Reqs : GenerateFail(i)
    \/ \E i \in Reqs : YieldShort(i)
    \/ \E i \in Reqs : UpstreamClose(i)
    \/ \E i \in Reqs : UpstreamError(i)
    \/ \E i \in Reqs : ClientRead(i)
    \/ \E i \in Reqs : ClientCancel(i)
    \/ \E i \in Reqs : HistRead(i)
    \/ \E i \in Reqs : UpdGet(i)
    \/ \E i \in Reqs : UpdWrite(i)
    \/ \E i \in Reqs : UpdWriteFail(i)
    \/ DeleteRoute

SpecRace == InitSeq /\ [][NextRace]_vars

InitHistory == InitWith({})

NextHistory == LibCreate \/ LibUpdate \/ LibDelete

SpecHistory == InitHistory /\ [][NextHistory]_vars

----------------------------------------------------------------------------
(* The client: one mounted component that uses the dictation hook *)

(***************************************************************************)
(* ui is the mounted component.  Its fields:                               *)
(*   host                  "chat" (ChatArea) or "overlay"                  *)
(*                         (ConversationModeOverlay)                       *)
(*   isListening, transcript              useState of the hook             *)
(*   finalTranscriptRef, isManualStopRef  useRef of the hook               *)
(*   recognition           the engine instance recognitionRef holds        *)
(*   typedInput, initialSpeechInputRef    state and ref of ChatArea        *)
(*   status, statusMessage, isAiSpeaking  state of the overlay             *)
(*   fresh                 an object-valued state (lastUtterance) was set  *)
(*                         since the last render                           *)
(*   rendered              what the last render saw: the values the        *)
(*                         callbacks it created close over, and the text   *)
(*                         it put in the input box                         *)
(*   disposed              engine instances the effect has detached and    *)
(*                         that have not ended yet                         *)
(*   calls, fetches, synthesis, late, restartTimers, errorTimers           *)
(*                         the overlay's requests, utterances and timers   *)
(*   seed, heard, shape, stopped, emitted, interims, ends, errors,         *)
(*   toggles, typed, blanks                                                *)
(*                         history of the session, for the properties and  *)
(*                         the bounds                                      *)
(* React state holds the latest value set; a render that is still to come  *)
(* is a difference between the state and ui.rendered.                      *)
(***************************************************************************)

MaxResults == 3    \* final results the engine delivers per behaviour
MaxInterims == 1   \* interim results the engine delivers per behaviour
MaxEnds == 3       \* ends the engine imposes per behaviour
MaxErrors == 1     \* error events of the engine per behaviour
MaxToggles == 2    \* presses of the microphone button per behaviour
MaxTyped == 1      \* keystrokes in the input box per behaviour

\* What the chat view's user dictates, in order.
Script == << <<"a">>, <<"b">>, <<"c">> >>

\* An interim result.
Interim == <<"u">>

\* ChatArea passes continuous: true, the overlay continuous: false.
Continuous(c) == c.host = "chat"

\* The input box of ChatArea shows mergedInput.
mergedInput(c) ==
    IF c.isListening
    THEN Trim(c.initialSpeechInputRef \o <<" ">> \o c.transcript)
    ELSE c.typedInput

\* The state a render reads.
View(c) ==
    [isListening |-> c.isListening, transcript |-> c.transcript,
     typedInput |-> c.typedInput, status |-> c.status,
     statusMessage |-> c.statusMessage, isAiSpeaking |-> c.isAiSpeaking,
     lastUtterance |-> c.lastUtterance,
     mergedInput |-> mergedInput(c)]

\* A render is due: some state differs from what the last render saw.
Dirty(c) ==
    \/ c.fresh
    \/ [View(c) EXCEPT !.mergedInput = c.rendered.mergedInput] # c.rendered

\* The component after its first render and the effect that follows it, in
\* a browser that has a SpeechRecognition constructor and speechSynthesis.
Mounted(host) ==
    LET c == [host |-> host, recognitionSupported |-> TRUE,
              speechSynthesis |-> TRUE,
              isListening |-> FALSE, transcript |-> <<>>,
              finalTranscriptRef |-> <<>>, isManualStopRef |-> FALSE,
              recognition |-> "idle",
              typedInput |-> <<>>, initialSpeechInputRef |-> <<>>,
              status |-> "idle", statusMessage |-> "tap",
              isAiSpeaking |-> FALSE, fresh |-> FALSE, rendered |-> <<>>,
              lastUtterance |-> "null",
              calls |-> <<>>, fetches |-> 0, synthesis |-> <<>>, late |-> <<>>,
              restartTimers |-> <<>>, errorTimers |-> <<>>,
              seed |-> <<>>, heard |-> <<>>, shape |-> <<>>,
              probe |-> FALSE, session |-> FALSE,
              onEndCalls |-> 0, onFinalCalls |-> 0,
              stopped |-> FALSE, emitted |-> 0, interims |-> 0, ends |-> 0,
              errors |-> 0, toggles |-> 0, typed |-> 0, blanks |-> 0,
              disposed |-> 0]
    IN [c EXCEPT !.rendered = View(c)]

----------------------------------------------------------------------------
(* The speech engine (SpeechRecognition of the browser) *)

\* start() of an instance that is not idle throws InvalidStateError, which
\* startSession swallows.
start(st) == IF st = "idle" THEN "starting" ELSE st

\* stop() of an instance that was not started does nothing.
stop(st) == IF st \in {"starting", "started"} THEN "stopping" ELSE st

----------------------------------------------------------------------------
(* ChatArea: the callbacks it passes to the hook *)

handleFinalTranscript(c, finalTranscript) ==
    LET finalMessage == Trim(c.initialSpeechInputRef \o <<" ">> \o finalTranscript)
    IN [c EXCEPT !.typedInput = finalMessage,
                 !.initialSpeechInputRef = finalMessage]

handleSpeechStart(c) ==
    LET currentInput == Trim(c.rendered.typedInput)
        c1 == [c EXCEPT !.initialSpeechInputRef = currentInput]
    IN IF currentInput = <<>> THEN [c1 EXCEPT !.typedInput = <<>>] ELSE c1

\* Only moves the focus.
handleSpeechEnd(c) == c

handleSpeechError(c, error) ==
    LET currentLiveInput ==
            IF c.rendered.mergedInput # <<>> THEN c.rendered.mergedInput
            ELSE c.rendered.typedInput
    IN [c EXCEPT !.typedInput = currentLiveInput,
                 !.initialSpeechInputRef = currentLiveInput]

----------------------------------------------------------------------------
(* The dictation hook: what it returns to its host *)

resetTranscript(c) ==
    [c EXCEPT !.transcript = <<>>, !.finalTranscriptRef = <<>>]

startSession(c) == [c EXCEPT !.recognition = start(@)]

\* isListening is the value the callback closes over.
startListening(c, isListening, initialText) ==
    IF isListening THEN c
    ELSE LET c1 == [c EXCEPT !.recognition = stop(@)]
             c2 == IF Trim(initialText) # <<>>
                   THEN [c1 EXCEPT !.finalTranscriptRef = Trim(initialText) \o <<" ">>,
                                   !.transcript = Trim(initialText)]
                   ELSE resetTranscript(c1)
         IN startSession([c2 EXCEPT !.isManualStopRef = FALSE])

stopListening(c, isListening) ==
    IF isListening
    THEN [c EXCEPT !.isManualStopRef = TRUE, !.recognition = stop(@)]
    ELSE c

----------------------------------------------------------------------------
(* ConversationModeOverlay: the callbacks it passes to the hook *)

\* A request of the loop: it awaits the id token, then the fetch.  The
\* request keeps the startListening of the render that issued it.
Request(c, userText) ==
    [stage |-> "token", text |-> userText, isListening |-> c.rendered.isListening,
     interrupted |-> FALSE]

handleUserSpeechEndAlways(c, userText) ==
    [c EXCEPT !.status = "thinking", !.statusMessage = "thinking",
              !.calls = Append(@, Request(c, userText))]

handleUserSpeechEnd(c, userText) ==
    IF Trim(userText) = <<>>
    THEN [c EXCEPT !.status = "idle", !.statusMessage = "nospeech"]
    ELSE [c EXCEPT !.status = "thinking", !.statusMessage = "thinking",
                   !.calls = Append(@, Request(c, userText))]

overlayOnStart(c) ==
    IF ~c.rendered.isAiSpeaking
    THEN [c EXCEPT !.status = "listening", !.statusMessage = "listening",
                   !.lastUtterance = "set", !.fresh = TRUE]
    ELSE c

overlayOnFinalTranscript(c, finalTranscript) ==
    handleUserSpeechEnd(stopListening([c EXCEPT !.lastUtterance = "set", !.fresh = TRUE],
                                      c.rendered.isListening),
                        finalTranscript)

overlayOnInterimTranscript(c, interimTranscript) ==
    [c EXCEPT !.lastUtterance = "set", !.fresh = TRUE]

overlayOnEnd(c) ==
    IF c.rendered.status = "listening"
    THEN [c EXCEPT !.status = "idle", !.statusMessage = "nospeech"]
    ELSE c

overlayOnError(c, error) ==
    [c EXCEPT !.status = "error", !.statusMessage = "sttError",
              !.errorTimers = Append(@, "tap")]

----------------------------------------------------------------------------
(* The options of the hook, as the mounted host passes them *)

\* With probe set, the record counts the calls of onEnd and
\* onFinalTranscript since the last call of onStart.
onStart(c) ==
    LET d == IF c.probe
             THEN [c EXCEPT !.session = TRUE, !.onEndCalls = 0, !.onFinalCalls = 0]
             ELSE c
    IN IF c.host = "chat" THEN handleSpeechStart(d) ELSE overlayOnStart(d)

onFinalTranscript(c, text) ==
    LET d == IF c.probe THEN [c EXCEPT !.onFinalCalls = @ + 1] ELSE c
    IN IF c.host = "chat" THEN handleFinalTranscript(d, text)
       ELSE overlayOnFinalTranscript(d, text)

\* ChatArea passes no onInterimTranscript.
onInterimTranscript(c, text) ==
    IF c.host = "chat" THEN c ELSE overlayOnInterimTranscript(c, text)

onEnd(c) ==
    LET d == IF c.probe THEN [c EXCEPT !.onEndCalls = @ + 1] ELSE c
    IN IF c.host = "chat" THEN handleSpeechEnd(d) ELSE overlayOnEnd(d)

onError(c, error) ==
    IF c.host = "chat" THEN handleSpeechError(c, error) ELSE overlayOnError(c, error)

----------------------------------------------------------------------------
(* The dictation hook: the handlers its effect attaches to the engine *)

onstart(c) == onStart([c EXCEPT !.isListening = TRUE, !.isManualStopRef = FALSE])

onresultKeepsInterim(c, final, interim) ==
    LET ref == c.finalTranscriptRef \o final \o interim
        currentTotalTranscript == Trim(ref \o interim)
    IN onInterimTranscript([c EXCEPT !.finalTranscriptRef = ref,
                                     !.transcript = currentTotalTranscript],
                           Trim(interim))

\* One result per event: final is the final text of the event (each final
\* transcript followed by a space), interim its interim text.
onresult(c, final, interim) ==
    LET ref == c.finalTranscriptRef \o final
        currentTotalTranscript == Trim(ref \o interim)
    IN onInterimTranscript([c EXCEPT !.finalTranscriptRef = ref,
                                     !.transcript = currentTotalTranscript],
                           Trim(interim))

onerrorAlwaysFatal(c, error) ==
    onEnd(onError([c EXCEPT !.isListening = FALSE, !.isManualStopRef = TRUE], error))

onerrorNoFlag(c, error) ==
    IF error \in {"network", "aborted"} THEN c
    ELSE onEnd(onError([c EXCEPT !.isListening = FALSE], error))

onerror(c, error) ==
    IF error \in {"network", "aborted"} THEN c
    ELSE onEnd(onError([c EXCEPT !.isListening = FALSE, !.isManualStopRef = TRUE],
                       error))

onend(c) ==
    LET deliver(d) ==
            IF d.finalTranscriptRef # <<>>
            THEN onFinalTranscript(d, Trim(d.finalTranscriptRef))
            ELSE d
        settle(d) == onEnd([d EXCEPT !.isListening = FALSE, !.isManualStopRef = FALSE])
    IN IF ~c.isManualStopRef
       THEN IF Continuous(c) THEN startSession(deliver(c)) ELSE settle(deliver(c))
       ELSE settle(deliver(c))

\* The effect runs again: the cleanup of the previous run marks the stop as
\* manual, stops the instance and detaches its handlers; then a new
\* instance, not started, takes its place in recognitionRef.  disposed
\* counts the detached instances whose end event is still to come.
effectNoFlag(c) ==
    [c EXCEPT !.recognition = "idle",
              !.disposed = IF c.recognition = "idle" THEN @ ELSE @ + 1]

effect(c) ==
    [c EXCEPT !.isManualStopRef = TRUE, !.recognition = "idle",
              !.disposed = IF c.recognition = "idle" THEN @ ELSE @ + 1]

\* A render and the effect after it.  The effect depends on the option
\* callbacks: the overlay creates them on every render, ChatArea recreates
\* onStart and onError when typedInput changes.
render(c) ==
    LET depsChanged == c.host = "overlay" \/ c.typedInput # c.rendered.typedInput
        c1 == [c EXCEPT !.rendered = View(c), !.fresh = FALSE]
    IN IF depsChanged /\ c.recognitionSupported THEN effect(c1) ELSE c1

----------------------------------------------------------------------------
(* Events of the engine instance the hook holds, and renders *)

\* What the overlay's user may say: nothing intelligible, or "hi".
Utterances == { <<>>, <<"h", "i">> }

ErrorCodes == {"network", "not-allowed"}

\* The final transcripts the engine may deliver next.
Finals(c) ==
    IF c.host = "chat" THEN {Script[(c.emitted % Len(Script)) + 1]} ELSE Utterances

EngineStart ==
    /\ ui.recognition = "starting"
    /\ ui' = onstart([ui EXCEPT !.recognition = "started"])
    /\ UNCHANGED serverVars

EngineFinal ==
    /\ ui.recognition \in {"started", "stopping"}
    /\ ui.emitted < MaxResults
    /\ \E f \in Finals(ui) :
         ui' = onresult([ui EXCEPT !.emitted = @ + 1, !.heard = Append(@, f),
                                   !.shape = Append(@, "final")],
                        f \o <<" ">>, <<>>)
    /\ UNCHANGED serverVars

EngineInterim ==
    /\ ui.recognition = "started"
    /\ ui.interims < MaxInterims
    /\ ui' = onresult([ui EXCEPT !.interims = @ + 1, !.shape = Append(@, "interim")],
                      <<>>, Interim)
    /\ UNCHANGED serverVars

EngineError ==
    /\ ui.recognition \in {"starting", "started"}
    /\ ui.errors < MaxErrors
    /\ \E error \in ErrorCodes :
         ui' = onerror([ui EXCEPT !.recognition = "failing", !.errors = @ + 1,
                                  !.shape = Append(@, error)],
                       error)
    /\ UNCHANGED serverVars

\* What was heard is only whitespace: the final transcript the hook delivers
\* for it is empty.
BlankSpeech(ref) == ref # <<>> /\ Trim(ref) = <<>>

\* The engine ends: on its own (silence, session limit), after stop(), or
\* after an error.
EngineEnd ==
    /\ ui.recognition \in {"started", "stopping", "failing"}
    /\ ui.recognition = "started" => ui.ends < MaxEnds
    /\ ui' = onend([ui EXCEPT !.recognition = "idle",
                              !.ends = IF ui.recognition = "started" THEN @ + 1 ELSE @,
                              !.shape = Append(@, IF ui.isManualStopRef
                                                  THEN "manualEnd" ELSE "end"),
                              !.blanks = IF BlankSpeech(ui.finalTranscriptRef)
                                         THEN @ + 1 ELSE @])
    /\ UNCHANGED serverVars

\* A detached instance ends: its onend is null, nothing of the hook runs.
DisposedEnd ==
    /\ ui.disposed > 0
    /\ ui' = [ui EXCEPT !.disposed = @ - 1]
    /\ UNCHANGED serverVars

\* React renders the component again and runs the effects that are due.
\* State set from an engine callback, a timer or a promise is rendered in a
\* later task and the effects run after that render, so events that are
\* already due may be handled first, by the handlers of the previous render.
Render ==
    /\ Dirty(ui)
    /\ ui' = render(ui)
    /\ UNCHANGED serverVars

----------------------------------------------------------------------------
(* ChatArea: what its user does *)

\* The microphone button of ChatArea pressed in component state d.  The
\* user presses what the last render shows.
pressVoice(d) ==
    LET r == d.rendered
        c == [d EXCEPT !.toggles = @ + 1]
    IN IF r.isListening
       THEN stopListening([c EXCEPT !.stopped = TRUE], r.isListening)
       ELSE startListening([c EXCEPT !.seed = r.typedInput, !.heard = <<>>,
                                     !.shape = <<>>, !.stopped = FALSE],
                           r.isListening, r.typedInput)

handleVoiceInputToggle ==
    /\ ~Dirty(ui)
    /\ ui.toggles < MaxToggles
    /\ ui' = pressVoice(ui)
    /\ UNCHANGED serverVars

\* A keystroke in the input box.
handleInputChange ==
    /\ ~Dirty(ui)
    /\ ui.typed < MaxTyped
    /\ LET r == ui.rendered
           newValue == Append(r.mergedInput, "x")
           c == [ui EXCEPT !.typed = @ + 1, !.shape = Append(@, "type")]
           c1 == IF r.isListening THEN stopListening(c, r.isListening) ELSE c
       IN ui' = [c1 EXCEPT !.typedInput = newValue]
    /\ UNCHANGED serverVars

----------------------------------------------------------------------------
(* Specifications of the client *)

InitClient(host) ==
    /\ ui = Mounted(host)
    /\ store = <<>>
    /\ req = <<>>
    /\ clock = 1
    /\ uuid = 0
    /\ lastCall = NoCall

\* SpecDictation: the chat view and the dictation hook, continuous = true.
InitDictation == InitClient("chat")

NextDictation ==
    \/ handleVoiceInputToggle
    \/ handleInputChange
    \/ EngineStart
    \/ EngineFinal
    \/ EngineInterim
    \/ EngineError
    \/ EngineEnd
    \/ DisposedEnd
    \/ Render

SpecDictation == InitDictation /\ [][NextDictation]_vars

----------------------------------------------------------------------------
(* ConversationModeOverlay: the microphone button, requests, speech, timers *)

\* The sequence s without its k-th element.
Drop(s, k) == SubSeq(s, 1, k - 1) \o SubSeq(s, k + 1, Len(s))

\* speechSynthesis.cancel(): every utterance leaves the queue; each still
\* gets its end or error event.
cancel(synthesis) ==
    [k \in DOMAIN synthesis |-> [synthesis[k] EXCEPT !.cancelled = TRUE]]

\* The requests in flight when the microphone is pressed in the thinking
\* phase: none of them is aborted.
interrupt(c) ==
    [k \in DOMAIN c.calls |->
        [c.calls[k] EXCEPT !.interrupted = @ \/ c.status = "thinking"]]

\* The microphone button of the overlay pressed in component state d.
\* The user presses what the last render shows.
pressMic(d) ==
    LET r == d.rendered
        c == [d EXCEPT !.toggles = @ + 1, !.calls = interrupt(d)]
    IN IF r.isAiSpeaking
       THEN [c EXCEPT !.late = @ \o cancel(c.synthesis),
                      !.synthesis = <<>>,
                      !.isAiSpeaking = FALSE, !.status = "idle",
                      !.statusMessage = "canceled"]
       ELSE IF r.isListening
       THEN [stopListening([c EXCEPT !.stopped = TRUE], r.isListening)
               EXCEPT !.status = "idle", !.statusMessage = "stopped"]
       ELSE IF ~c.recognitionSupported
       THEN [c EXCEPT !.status = "error",
                      !.statusMessage = "notSupported"]
       ELSE startListening(
               [resetTranscript(c) EXCEPT !.lastUtterance = "null",
                                          !.seed = <<>>, !.heard = <<>>,
                                          !.shape = <<>>, !.stopped = FALSE],
               r.isListening, <<>>)

\* The microphone button, pressed at most max times.
handleMicToggleUpTo(max) ==
    /\ ~Dirty(ui)
    /\ ui.toggles < max
    /\ ui' = pressMic(ui)
    /\ UNCHANGED serverVars

handleMicToggle == handleMicToggleUpTo(MaxToggles)

\* The catch block of handleUserSpeechEnd.
requestFailed(c) ==
    [c EXCEPT !.status = "error", !.statusMessage = "aiError",
              !.errorTimers = Append(@, "tapRestart")]

\* utterance.onend and utterance.onerror, recognition being supported.
utteranceOver(c, utterance) ==
    [c EXCEPT !.isAiSpeaking = FALSE,
              !.restartTimers = Append(@, utterance)]

\* The early return of startSpeaking taken whatever the browser has.
startSpeakingSilent(c, call) == c

startSpeaking(c, call) ==
    IF ~c.speechSynthesis THEN c ELSE
    [c EXCEPT !.status = "speaking", !.statusMessage = "speaking",
              !.isAiSpeaking = TRUE,
              !.synthesis = Append(@, [isListening |-> call.isListening,
                                       cancelled |-> FALSE])]

\* getIdToken() resolves and the request is sent.
TokenOk ==
    /\ \E k \in DOMAIN ui.calls :
         /\ ui.calls[k].stage = "token"
         /\ ui' = [ui EXCEPT !.calls[k].stage = "fetch", !.fetches = @ + 1]
    /\ UNCHANGED serverVars

\* getIdToken() or fetch rejects, the response is not ok, or reading its
\* body fails.
RequestFail ==
    /\ \E k \in DOMAIN ui.calls :
         ui' = requestFailed([ui EXCEPT !.calls = Drop(@, k)])
    /\ UNCHANGED serverVars

\* The response is ok and its body has been read to the end.
RequestOk ==
    /\ \E k \in DOMAIN ui.calls :
         /\ ui.calls[k].stage = "fetch"
         /\ ui' = startSpeaking([ui EXCEPT !.calls = Drop(@, k),
                                           !.lastUtterance = "set", !.fresh = TRUE],
                                ui.calls[k])
    /\ UNCHANGED serverVars

\* The utterance at the head of the synthesis queue ends or fails.
SynthesisOver ==
    /\ ui.synthesis # <<>>
    /\ ui' = utteranceOver([ui EXCEPT !.synthesis = Tail(@)], Head(ui.synthesis))
    /\ UNCHANGED serverVars

\* The end or error event of an utterance that cancel() removed.
LateSynthesisOver ==
    /\ ui.late # <<>>
    /\ ui' = utteranceOver([ui EXCEPT !.late = Tail(@)], Head(ui.late))
    /\ UNCHANGED serverVars

\* setTimeout(() => startListening(), 500) fires; timers of one delay fire
\* in the order they were armed, and a render that was due when a timer was
\* armed has happened by the time it fires.
RestartTimer ==
    /\ ~Dirty(ui)
    /\ ui.restartTimers # <<>>
    /\ LET isListening == Head(ui.restartTimers).isListening
           c == [ui EXCEPT !.restartTimers = Tail(@)]
       IN ui' = IF isListening THEN c
                ELSE startListening([c EXCEPT !.seed = <<>>, !.heard = <<>>,
                                              !.shape = <<>>, !.stopped = FALSE],
                                    isListening, <<>>)
    /\ UNCHANGED serverVars

\* The 5 second timer armed by an error fires.  The timer of a failed
\* request does nothing when recognition is not supported.
ErrorTimer ==
    /\ ~Dirty(ui)
    /\ ui.errorTimers # <<>>
    /\ ui' = IF Head(ui.errorTimers) = "tapRestart" /\ ~ui.recognitionSupported
             THEN [ui EXCEPT !.errorTimers = Tail(@)]
             ELSE [ui EXCEPT !.errorTimers = Tail(@), !.status = "idle",
                             !.statusMessage = Head(ui.errorTimers)]
    /\ UNCHANGED serverVars

\* SpecLoop: the conversation overlay and the dictation hook,
\* continuous = false.
InitLoop == InitClient("overlay")

NextLoop ==
    \/ handleMicToggle
    \/ EngineStart
    \/ EngineFinal
    \/ EngineInterim
    \/ EngineError
    \/ EngineEnd
    \/ DisposedEnd
    \/ Render
    \/ TokenOk
    \/ RequestFail
    \/ RequestOk
    \/ SynthesisOver
    \/ LateSynthesisOver
    \/ RestartTimer
    \/ ErrorTimer

SpecLoop == InitLoop /\ [][NextLoop]_vars

----------------------------------------------------------------------------
(* SpecRun: one user talking to the loop, nothing going wrong.  The user    *)
(* presses the microphone once; in every session the engine hears "hi",     *)
(* perhaps after an interim result, and then ends; every request succeeds   *)
(* and every utterance is spoken to its end.  Whatever is due happens       *)
(* eventually.                                                              *)

Hi == <<"h", "i">>

RunStart == ui.toggles = 0 /\ handleMicToggle

RunSpeech == ui.heard = <<>> /\ EngineFinal /\ ui'.heard = <<Hi>>

RunEngineEnd == ui.heard # <<>> /\ EngineEnd

NextRun ==
    \/ RunStart
    \/ EngineStart
    \/ EngineInterim
    \/ RunSpeech
    \/ RunEngineEnd
    \/ DisposedEnd
    \/ Render
    \/ TokenOk
    \/ RequestOk
    \/ SynthesisOver
    \/ RestartTimer

\* SpecTalk: the user presses the microphone to talk or to stop listening,
\* once more than in SpecLoop, never while the assistant speaks, and says
\* "hi" each time; every request succeeds.
PressToTalk ==
    /\ ~ui.rendered.isAiSpeaking
    /\ handleMicToggleUpTo(MaxToggles + 1)

TalkSpeech == EngineFinal /\ ui'.heard = Append(ui.heard, Hi)

NextTalk ==
    \/ PressToTalk
    \/ EngineStart
    \/ TalkSpeech
    \/ EngineEnd
    \/ DisposedEnd
    \/ Render
    \/ TokenOk
    \/ RequestOk
    \/ SynthesisOver
    \/ RestartTimer

SpecTalk == InitLoop /\ [][NextTalk]_vars

----------------------------------------------------------------------------
(* SpecError: the overlay in a browser with or without speech recognition. *)
(* The user presses the microphone once; dictation and requests may fail.  *)
(* Renders that are due and timers that are armed happen eventually.       *)

InitError ==
    /\ \E supported \in BOOLEAN :
         ui = [Mounted("overlay") EXCEPT !.recognitionSupported = supported]
    /\ store = <<>>
    /\ req = <<>>
    /\ clock = 1
    /\ uuid = 0
    /\ lastCall = NoCall

PressOnce == handleMicToggleUpTo(1)

NextError ==
    \/ PressOnce
    \/ EngineStart
    \/ EngineFinal
    \/ EngineInterim
    \/ EngineError
    \/ EngineEnd
    \/ DisposedEnd
    \/ Render
    \/ TokenOk
    \/ RequestFail
    \/ RequestOk
    \/ SynthesisOver
    \/ RestartTimer
    \/ ErrorTimer

SpecError ==
    /\ InitError
    /\ [][NextError]_vars
    /\ WF_vars(Render)
    /\ WF_vars(ErrorTimer)

----------------------------------------------------------------------------
(* SpecSession: the dictation sessions of the overlay with the calls of    *)
(* onEnd and onFinalTranscript counted per session.  The requests the      *)
(* sessions send stay in flight.                                           *)

InitSession ==
    /\ ui = [Mounted("overlay") EXCEPT !.probe = TRUE]
    /\ store = <<>>
    /\ req = <<>>
    /\ clock = 1
    /\ uuid = 0
    /\ lastCall = NoCall

NextSession ==
    \/ handleMicToggle
    \/ EngineStart
    \/ EngineFinal
    \/ EngineInterim
    \/ EngineError
    \/ EngineEnd
    \/ DisposedEnd
    \/ Render
    \/ ErrorTimer

SpecSession == InitSession /\ [][NextSession]_vars

----------------------------------------------------------------------------
(* SpecSpeak: the overlay opened in a browser with or without              *)
(* speechSynthesis.  Without it the effect that lists the voices throws on *)
(* mount (window.speechSynthesis.getVoices() of undefined) and React takes *)
(* the component away.                                                      *)

mount(speechSynthesis) ==
    IF speechSynthesis THEN Mounted("overlay") ELSE Unmounted

InitSpeak ==
    /\ \E speechSynthesis \in BOOLEAN : ui = mount(speechSynthesis)
    /\ store = <<>>
    /\ req = <<>>
    /\ clock = 1
    /\ uuid = 0
    /\ lastCall = NoCall

NextSpeak ==
    /\ ui.host = "overlay"
    /\ NextError

SpecSpeak == InitSpeak /\ [][NextSpeak]_vars

----------------------------------------------------------------------------
(* SpecPage: HomePage with ChatArea mounted and the conversation overlay   *)
(* opened over it.  Each of the two has its own dictation hook and its own *)
(* engine instance.  Nobody speaks.  What the browser does with a running  *)
(* instance when another one starts is not the program's choice: it lets   *)
(* it run, or it aborts it (error 'aborted', then end).                    *)

Hosts == {"chat", "overlay"}

Other(h) == IF h = "chat" THEN "overlay" ELSE "chat"

\* The overlay is rendered only while isConversationModeOpen.
Present(h) == h = "chat" \/ ui.open

InitPage ==
    /\ ui = [host |-> "page", open |-> FALSE,
             chat |-> Mounted("chat"), overlay |-> Unmounted]
    /\ store = <<>>
    /\ req = <<>>
    /\ clock = 1
    /\ uuid = 0
    /\ lastCall = NoCall

\* onOpenConversationMode: setIsConversationModeOpen(true) mounts the
\* overlay.
OpenConversationMode ==
    /\ ~ui.open
    /\ ~Dirty(ui.chat)
    /\ ui' = [ui EXCEPT !.open = TRUE, !.overlay = Mounted("overlay")]
    /\ UNCHANGED serverVars

\* The microphone button of ChatArea, which the open overlay covers.
PageVoiceToggle ==
    /\ ~ui.open
    /\ ~Dirty(ui.chat)
    /\ ui.chat.toggles < MaxToggles
    /\ ui' = [ui EXCEPT !.chat = pressVoice(@)]
    /\ UNCHANGED serverVars

PageMicToggle ==
    /\ ui.open
    /\ ~Dirty(ui.overlay)
    /\ ui.overlay.toggles < MaxToggles
    /\ ui' = [ui EXCEPT !.overlay = pressMic(@)]
    /\ UNCHANGED serverVars

\* The instance of h starts; the browser may abort the running instance of
\* the other hook.
PageEngineStart(h) ==
    /\ Present(h)
    /\ ui[h].recognition = "starting"
    /\ LET started == [ui EXCEPT ![h] = onstart([@ EXCEPT !.recognition = "started"])]
           o == Other(h)
       IN \/ ui' = started
          \/ /\ Present(o)
             /\ ui[o].recognition = "started"
             /\ ui' = [started EXCEPT ![o] = onerror([@ EXCEPT !.recognition = "failing"],
                                                     "aborted")]
    /\ UNCHANGED serverVars

PageEngineEnd(h) ==
    /\ Present(h)
    /\ ui[h].recognition \in {"started", "stopping", "failing"}
    /\ ui[h].recognition = "started" => ui[h].ends < MaxEnds
    /\ ui' = [ui EXCEPT ![h] =
                 onend([@ EXCEPT !.recognition = "idle",
                                 !.ends = IF ui[h].recognition = "started"
                                          THEN @ + 1 ELSE @])]
    /\ UNCHANGED serverVars

PageDisposedEnd(h) ==
    /\ Present(h)
    /\ ui[h].disposed > 0
    /\ ui' = [ui EXCEPT ![h].disposed = @ - 1]
    /\ UNCHANGED serverVars

PageRender(h) ==
    /\ Present(h)
    /\ Dirty(ui[h])
    /\ ui' = [ui EXCEPT ![h] = render(@)]
    /\ UNCHANGED serverVars

NextPage ==
    \/ OpenConversationMode
    \/ PageVoiceToggle
    \/ PageMicToggle
    \/ \E h \in Hosts : PageEngineStart(h)
    \/ \E h \in Hosts : PageEngineEnd(h)
    \/ \E h \in Hosts : PageDisposedEnd(h)
    \/ \E h \in Hosts : PageRender(h)

SpecPage == InitPage /\ [][NextPage]_vars

----------------------------------------------------------------------------
(* SpecSend: ChatArea's message list and handleSendMessage.  Nobody        *)
(* dictates (isListening is false, the stopListening of line 307 is not    *)
(* taken).  A run of handleSendMessage is followed from await to await;    *)
(* what the server answers is the environment's choice.                    *)

MaxSends == 2      \* submits of the form per behaviour
MaxFiles == 1      \* files the user attaches per behaviour
MaxReads == 1      \* chunks read from one response body

BOT_PENDING_ID == 0

\* The texts finalizeBotMessage is given on the paths that fail.
SessionExpired == <<"Session expired. Please log out and log back in.">>
ServerError == <<"Error: ", "Server responded with an error.">>
BodyMissing == <<"Error: Response body missing from successful stream connection.">>
NetworkFailed == <<"Error fetching AI response: Network or communication failed.">>

\* What the header X-Chat-ID carries for run k: the id of the request, or
\* the id of the conversation the server created for it.
ChatIdOf(run, k) == IF run.chatId = NoChat THEN k ELSE run.chatId

\* What GET /api/chat returns for the conversation: the messages stored so
\* far, which carry the server's ids.
Histories ==
    { << [id |-> 101, text |-> <<"x">>] >>,
      << [id |-> 101, text |-> <<"x">>], [id |-> 102, text |-> <<"a">>] >> }

\* The values a render of ChatArea reads that handleSendMessage and the
\* history effect close over.
SendView(c) ==
    [typedInput |-> c.typedInput, attachments |-> c.attachments,
     isLoading |-> c.isLoading, isHistoryLoading |-> c.isHistoryLoading,
     chatId |-> c.chatId, isInitialExchange |-> c.isInitialExchange]

SendMounted ==
    LET c == [host |-> "send", isListening |-> FALSE,
              messages |-> <<>>, typedInput |-> <<>>, attachments |-> 0,
              isLoading |-> FALSE, isHistoryLoading |-> FALSE,
              chatId |-> NoChat, isInitialExchange |-> FALSE,
              streamingEnabled |-> TRUE,
              runs |-> <<>>, historyFetches |-> 0, nextId |-> 0,
              typed |-> 0, attached |-> 0, rendered |-> <<>>]
    IN [c EXCEPT !.rendered = SendView(c)]

PendingAt(messages) == { k \in DOMAIN messages : messages[k].id = BOT_PENDING_ID }

\* findIndex: the first index that holds the placeholder.
findIndex(messages) ==
    CHOOSE n \in PendingAt(messages) : \A m \in PendingAt(messages) : n <= m

addMessage(messages, msg) == Append(messages, msg)

updateBotStreamingMessage(messages, text) ==
    IF messages # <<>> /\ messages[Len(messages)].id = BOT_PENDING_ID
    THEN [messages EXCEPT ![Len(messages)].text = @ \o text]
    ELSE Append(messages, [id |-> BOT_PENDING_ID, text |-> text])

finalizeKeepsPending(messages, id, finalText) == messages

finalizeBotMessage(messages, id, finalText) ==
    IF PendingAt(messages) # {}
    THEN SubSeq(messages, 1, findIndex(messages) - 1)
            \o << [id |-> id, text |-> finalText] >>
    ELSE messages

\* Lines 182-234, run after a render in which chatId or isInitialExchange
\* differs from the render before.
historyEffect(c) ==
    IF c.chatId # NoChat
    THEN IF c.isInitialExchange
         THEN [c EXCEPT !.isInitialExchange = FALSE, !.isHistoryLoading = FALSE]
         ELSE [c EXCEPT !.isHistoryLoading = TRUE, !.messages = <<>>,
                        !.historyFetches = @ + 1]
    ELSE [c EXCEPT !.messages = <<>>, !.attachments = 0,
                   !.isHistoryLoading = FALSE]

sendRender(c) ==
    LET depsChanged == \/ c.chatId # c.rendered.chatId
                       \/ c.isInitialExchange # c.rendered.isInitialExchange
        c1 == [c EXCEPT !.rendered = SendView(c)]
    IN IF depsChanged THEN historyEffect(c1) ELSE c1

\* Lines 332-349: the user message and the placeholder are added.
begin(c, k) ==
    [c EXCEPT !.messages = addMessage(addMessage(@,
                                [id |-> c.nextId + 1,
                                 text |-> Trim(c.runs[k].typedInput)]),
                                [id |-> BOT_PENDING_ID, text |-> Ellipsis]),
              !.nextId = @ + 1,
              !.attachments = 0, !.isLoading = TRUE,
              !.runs[k].pc = "token", !.runs[k].added = TRUE]

\* finalizeBotMessage(finalText), then the finally block.
finish(c, k, finalText) ==
    [c EXCEPT !.messages = finalizeBotMessage(@, c.nextId + 1, finalText),
              !.nextId = @ + 1,
              !.isLoading = FALSE,
              !.runs[k].pc = "done", !.runs[k].final = finalText]

SendInit ==
    /\ \E streamingEnabled \in BOOLEAN :
         ui = [SendMounted EXCEPT !.streamingEnabled = streamingEnabled]
    /\ store = <<>>
    /\ req = <<>>
    /\ clock = 1
    /\ uuid = 0
    /\ lastCall = NoCall

SendRender ==
    /\ SendView(ui) # ui.rendered
    /\ ui' = sendRender(ui)
    /\ UNCHANGED serverVars

\* handleInputChange: a keystroke; the textarea is disabled while loading.
SendType ==
    /\ SendView(ui) = ui.rendered
    /\ ~ui.rendered.isLoading /\ ~ui.rendered.isHistoryLoading
    /\ ui.typed < MaxTyped
    /\ ui' = [ui EXCEPT !.typed = @ + 1,
                        !.typedInput = Append(ui.rendered.typedInput, "x")]
    /\ UNCHANGED serverVars

\* handleFileSelect with one valid file.
SendAttach ==
    /\ SendView(ui) = ui.rendered
    /\ ~ui.rendered.isLoading /\ ~ui.rendered.isHistoryLoading
    /\ ui.attached < MaxFiles
    /\ ui' = [ui EXCEPT !.attached = @ + 1, !.attachments = @ + 1]
    /\ UNCHANGED serverVars

\* The form is submitted (Enter in the textarea, or the send button): the
\* run starts with the values of the last render and awaits a 0 ms timer.
handleSendMessage ==
    /\ SendView(ui) = ui.rendered
    /\ ~ui.rendered.isLoading /\ ~ui.rendered.isHistoryLoading
    /\ Len(ui.runs) < MaxSends
    /\ ui' = [ui EXCEPT !.runs = Append(@,
                 [pc |-> "tick", typedInput |-> ui.rendered.typedInput,
                  files |-> ui.rendered.attachments,
                  isLoading |-> ui.rendered.isLoading,
                  isHistoryLoading |-> ui.rendered.isHistoryLoading,
                  chatId |-> ui.rendered.chatId,
                  added |-> FALSE, acc |-> <<>>, reads |-> 0, final |-> <<>>])]
    /\ UNCHANGED serverVars

\* Lines 313-327: the timer fires; the guard; with no attachment the
\* conversion resolves in the same task.
SendGuard(k) ==
    /\ ui.runs[k].pc = "tick"
    /\ LET run == ui.runs[k]
           c == [ui EXCEPT !.typedInput = <<>>]
       IN ui' = IF \/ (Trim(run.typedInput) = <<>> /\ run.files = 0)
                   \/ run.isLoading
                   \/ run.isHistoryLoading
                THEN [ui EXCEPT !.runs[k].pc = "returned"]
                ELSE IF run.files = 0 THEN begin(c, k)
                ELSE [c EXCEPT !.runs[k].pc = "files"]
    /\ UNCHANGED serverVars

\* The attachments have been converted to base64.
SendFilesDone(k) ==
    /\ ui.runs[k].pc = "files"
    /\ ui' = begin(ui, k)
    /\ UNCHANGED serverVars

SendTokenOk(k) ==
    /\ ui.runs[k].pc = "token"
    /\ ui' = [ui EXCEPT !.runs[k].pc = "fetch"]
    /\ UNCHANGED serverVars

\* getIdToken or fetch rejects: the catch block.
SendRejected(k) ==
    /\ ui.runs[k].pc \in {"token", "fetch"}
    /\ ui' = finish(ui, k, NetworkFailed)
    /\ UNCHANGED serverVars

\* Lines 368-391: 401, an error with a JSON body, or no body.
SendRefused(k) ==
    /\ ui.runs[k].pc = "fetch"
    /\ \E text \in {SessionExpired, ServerError, BodyMissing} :
         ui' = finish(ui, k, text)
    /\ UNCHANGED serverVars

\* Lines 394-402: a response with a body that is not handled above, 200
\* or an error without JSON; X-Chat-ID may name a new conversation.
SendResponse(k) ==
    /\ ui.runs[k].pc = "fetch"
    /\ LET newChatId == ChatIdOf(ui.runs[k], k)
           c == [ui EXCEPT !.runs[k].pc = "read"]
       IN \/ ui' = IF newChatId # ui.runs[k].chatId
                   THEN [c EXCEPT !.isInitialExchange = TRUE, !.chatId = newChatId]
                   ELSE c
          \/ ui' = c
    /\ UNCHANGED serverVars

\* reader.read() returns a chunk.
SendReadChunk(k) ==
    /\ ui.runs[k].pc = "read"
    /\ ui.runs[k].reads < MaxReads
    /\ ui' = [ui EXCEPT !.runs[k].reads = @ + 1,
                        !.runs[k].acc = @ \o <<"a">>,
                        !.messages = IF ui.streamingEnabled
                                     THEN updateBotStreamingMessage(@, <<"a">>)
                                     ELSE @]
    /\ UNCHANGED serverVars

\* reader.read() returns done.
SendReadDone(k) ==
    /\ ui.runs[k].pc = "read"
    /\ LET c == IF ui.streamingEnabled THEN ui
                ELSE [ui EXCEPT !.messages =
                         updateBotStreamingMessage(@, ui.runs[k].acc)]
       IN ui' = finish(c, k, ui.runs[k].acc)
    /\ UNCHANGED serverVars

\* reader.read() rejects: the catch block.
SendReadFail(k) ==
    /\ ui.runs[k].pc = "read"
    /\ ui' = finish(ui, k, NetworkFailed)
    /\ UNCHANGED serverVars

\* fetchChatHistory of the history effect settles.
HistoryLoaded ==
    /\ ui.historyFetches > 0
    /\ \/ \E h \in Histories :
            ui' = [ui EXCEPT !.historyFetches = @ - 1, !.messages = h,
                             !.isHistoryLoading = FALSE]
       \/ ui' = [ui EXCEPT !.historyFetches = @ - 1,
                           !.messages = << [id |-> ui.nextId + 1,
                                            text |-> <<"Error loading history">>] >>,
                           !.nextId = @ + 1,
                           !.isHistoryLoading = FALSE]
    /\ UNCHANGED serverVars

SendStep(k) ==
    \/ SendGuard(k)
    \/ SendFilesDone(k)
    \/ SendTokenOk(k)
    \/ SendRejected(k)
    \/ SendRefused(k)
    \/ SendResponse(k)
    \/ SendReadChunk(k)
    \/ SendReadDone(k)
    \/ SendReadFail(k)

NextSend ==
    \/ SendRender
    \/ SendType
    \/ SendAttach
    \/ handleSendMessage
    \/ \E k \in DOMAIN ui.runs : SendStep(k)
    \/ HistoryLoaded

SpecSend == SendInit /\ [][NextSend]_vars

\* SpecSendFair: every promise a run awaits settles (the timer fires, the
\* files are read, the token and the response arrive or fail, the body
\* yields a chunk, ends or fails).
SpecSendFair ==
    /\ SpecSend
    /\ \A k \in 1..MaxSends : WF_vars(k \in DOMAIN ui.runs /\ SendStep(k))

SpecRun ==
    /\ InitLoop
    /\ [][NextRun]_vars
    /\ WF_vars(EngineStart)
    /\ WF_vars(RunSpeech)
    /\ WF_vars(RunEngineEnd)
    /\ WF_vars(DisposedEnd)
    /\ WF_vars(Render)
    /\ WF_vars(TokenOk)
    /\ WF_vars(RequestOk)
    /\ WF_vars(SynthesisOver)
    /\ WF_vars(RestartTimer)

----------------------------------------------------------------------------
(* Properties of the chat route and the store *)

NonEmpty(text) == text # <<>>

RECURSIVE EncodeAll(_)
EncodeAll(texts) ==
    IF texts = <<>> THEN <<>> ELSE <<Encode(Head(texts))>> \o EncodeAll(Tail(texts))

\* The chunks the source has enqueued, in order.
Enqueued(r) == EncodeAll(SelectSeq(r.yielded, NonEmpty))

\* The history task has read its branch to the end of the stream.
HistoryAtEnd(r) == r.drain \in {"updGet", "updWrite", "saved", "denied", "writeFailed"}

\* C1: when the generation stream ends normally, the client branch has read
\* exactly the chunks the source enqueued, once each and in order, the text
\* accumulated by the history task is the text the source produced, and the
\* two agree, whatever the order of the reads.
C1_BranchesSeeWholeStream ==
    \A i \in Reqs :
        LET r == req[i] IN
        /\ r.client = "done" => r.clientGot = Enqueued(r)
        /\ HistoryAtEnd(r) => r.full = Flatten(r.yielded)
        /\ (r.client = "done" /\ HistoryAtEnd(r)) => Decode(Flatten(r.clientGot)) = r.full

C1_Witness ==
    \E i \in Reqs :
        /\ req[i].client = "done"
        /\ req[i].drain = "saved"
        /\ Len(req[i].clientGot) >= 2
        /\ \E k \in 1..Len(req[i].full) : req[i].full[k] = "U+00E9"

\* C2 as stated: when the write of an exchange has failed, the transport
\* consumer (unless it went away) has received the complete text.
C2_ReceivedBeforeFailingWrite ==
    \A i \in Reqs :
        (req[i].drain = "writeFailed" /\ req[i].client # "cancelled")
            => req[i].clientGot = Enqueued(req[i])

\* C2, amended: from the moment the history task has the complete text, so
\* before a write is attempted and after it failed, every chunk of the text
\* has been received by the transport consumer or waits in the queue of its
\* branch, unless the consumer abandoned the branch.
C2_EnqueuedBeforeWrite ==
    \A i \in Reqs :
        (HistoryAtEnd(req[i]) /\ req[i].client # "cancelled")
            => req[i].clientGot \o req[i].clientQ = Enqueued(req[i])

C2_Witness ==
    \E i \in Reqs :
        /\ req[i].drain = "writeFailed"
        /\ req[i].client = "reading"
        /\ req[i].clientQ # <<>>
        /\ req[i].full # <<>>

\* C3: when the source fails after the history task has accumulated part of
\* the text, the task ends by handing that text to updateConversation.
C3_PartialTextPersisted ==
    \A i \in Reqs :
        (req[i].up = "errored" /\ req[i].full # <<>> /\ req[i].drain # "reading")
            => HistoryAtEnd(req[i])

\* C4: a stored conversation has one message (just created) or an even
\* number of messages (after every completed exchange).
C4_LengthOneOrEven ==
    \A c \in DOMAIN store :
        Len(store[c].messages) = 1 \/ IsEven(Len(store[c].messages))

\* C5: the write of updateConversation appends the assistant message alone
\* on a first exchange and the user message followed by the assistant
\* message otherwise, and no other step changes a stored message list: a
\* list gains the messages of an exchange together or not at all.
C5_WriteOf(i, c) ==
    /\ req[i].drain = "updWrite"
    /\ req'[i].drain = "saved"
    /\ req[i].chatId = c
    /\ LET user  == Message(req[i].upd.userMsgId, "user", req[i].msg, req[i].files)
           model == Message(req[i].upd.modelMsgId, "model", req[i].full, 0)
       IN  store'[c].messages =
               IF req[i].first THEN store[c].messages \o <<model>>
               ELSE store[c].messages \o <<user, model>>

C5_AppendRule ==
    [][\A c \in DOMAIN store \cap DOMAIN store' :
          \/ store'[c].messages = store[c].messages
          \/ \E i \in Reqs : C5_WriteOf(i, c)]_vars

C5_Witness ==
    \E c \in DOMAIN store :
        /\ Len(store[c].messages) = 4
        /\ store[c].messages[3].role = "user"
        /\ store[c].messages[4].role = "model"

\* C6: updateConversation and deleteConversation called for a chat id that
\* has no document, or by a user who is not the owner of the document, end
\* in an error and leave the store as it was.
C6_Rejected ==
    [][(/\ lastCall'.n # lastCall.n
        /\ lastCall'.op \in {"update", "delete"}
        /\ \/ lastCall'.chat \notin DOMAIN store
           \/ store[lastCall'.chat].userId # lastCall'.user)
       => (lastCall'.result = "error" /\ store' = store)]_vars

C6_Witness ==
    /\ lastCall.op = "update"
    /\ lastCall.result = "error"
    /\ lastCall.chat \in DOMAIN store
    /\ store[lastCall.chat].userId # lastCall.user

\* The title rule as the specification words it.
Words(message) == SelectSeq(SplitWs(message), NonEmpty)

ClaimedTitle(message) ==
    LET ws == Words(message) IN
    JoinSp(SubSeq(ws, 1, Min(6, Len(ws))))
        \o (IF Len(ws) > 6 THEN Ellipsis ELSE <<>>)

\* C7: the title a first exchange sets is the first six words of the user's
\* message joined by single spaces, with an ellipsis exactly when the
\* message has more than six words.
C7_TitleRule ==
    (lastCall.op = "update" /\ lastCall.first /\ lastCall.result = "ok")
        => store[lastCall.chat].title = ClaimedTitle(lastCall.text)

AllSpaces(message) == \A k \in 1..Len(message) : message[k] = " "

\* The answer a request gets in a step, from its inputs and the store the
\* step reads.  A body that cannot be parsed is answered 500; serverErrors
\* says whether 500 is also among the answers to a well-formed request.
C8_Answered(i, serverErrors) ==
    LET r == req[i]
        a == req'[i]
    IN
    /\ (r.pc = "idle" /\ a.pc # "idle") =>
          /\ a.status = 401 <=> a.user = NoUser
          /\ a.status = 400 <=> (a.user # NoUser /\ a.bodyOk /\ AllSpaces(a.msg) /\ a.files = 0)
          /\ a.status = 500 <=> (a.user # NoUser /\ ~a.bodyOk)
          /\ a.status \in {0, 400, 401, 500}
          /\ a.status = 0 => a.pc = (IF a.inChat = NoChat THEN "create" ELSE "getConv")
    /\ r.pc = "getConv" =>
          /\ a.status = 404 <=> ~(r.inChat \in DOMAIN store /\ store[r.inChat].userId = r.user)
          /\ a.status \in {0, 404}
    /\ r.pc = "create" =>
          /\ a.status \in {0} \cup (IF serverErrors THEN {500} ELSE {})
          /\ a.status = 0 => (a.chatId \notin DOMAIN store /\ a.chatId \in DOMAIN store'
                                /\ store'[a.chatId].userId = r.user)
    /\ r.pc = "generate" =>
          /\ a.status \in {200} \cup (IF serverErrors THEN {500} ELSE {})
          /\ a.status = 200 => (a.header = r.chatId /\ a.header # NoChat
                                  /\ (r.inChat # NoChat => a.header = r.inChat))

----------------------------------------------------------------------------
(* Properties of the client *)

C11_RunProgress ==
    /\ (ui.status = "listening" /\ ui.emitted < MaxResults) ~> (ui.status = "thinking")
    /\ (ui.status = "thinking") ~> (ui.status = "speaking")
    /\ (ui.status = "speaking") ~> (ui.status = "listening")

IsPrefix(s, t) == Len(s) <= Len(t) /\ s = SubSeq(t, 1, Len(s))

NotManualEnd(e) == e # "manualEnd"

\* The events of the scenario: three ends imposed by the engine, each
\* followed by a final fragment.
Scenario == <<"end", "final", "end", "final", "end", "final">>

\* The user pressed stop and nothing is left to happen: the engine instance
\* is idle and the component is rendered.
StoppedAndSettled(c) == c.stopped /\ c.recognition = "idle" /\ ~Dirty(c)

\* C10: in a continuous session started on an empty input box, in which the
\* engine imposed ends each followed by a final fragment ("a", "b", "c" in
\* that order), once the user has stopped the session the input box shows
\* the fragments heard, in order, separated by single spaces, none lost and
\* none twice.
C10_MergedAfterStop ==
    (/\ ui.seed = <<>>
     /\ IsPrefix(SelectSeq(ui.shape, NotManualEnd), Scenario)
     /\ IsPrefix(ui.heard, Script)
     /\ StoppedAndSettled(ui))
    => ui.rendered.mergedInput = JoinSp(ui.heard)

\* C12: pressing the microphone while the assistant speaks cancels the
\* synthesis and makes the phase idle in that step; the end or error event
\* of a cancelled utterance changes the phase no further, and what it leaves
\* behind does not start dictation again.
C12_InterruptWhileSpeaking ==
    [][/\ (ui'.toggles # ui.toggles /\ ui.rendered.isAiSpeaking)
            => ui'.status = "idle" /\ ui'.synthesis = <<>>
       /\ (ui'.late # ui.late /\ ui'.toggles = ui.toggles)
            => ui'.status = ui.status /\ ui'.recognition = ui.recognition
       /\ (/\ ui.restartTimers # <<>>
           /\ Head(ui.restartTimers).cancelled
           /\ ui'.restartTimers = Tail(ui.restartTimers))
            => ui'.status = ui.status /\ ui'.recognition = ui.recognition]_vars

\* C13: pressing the microphone while the assistant thinks leaves the
\* request in flight, and a request that was interrupted in this way is
\* dropped when it resolves: the phase does not become speaking and no
\* utterance is handed to the synthesis.
C13_InterruptedResultDiscarded ==
    [][/\ (ui'.toggles # ui.toggles) => Len(ui'.calls) = Len(ui.calls)
       /\ (\E k \in DOMAIN ui.calls :
             ui.calls[k].interrupted /\ ui'.calls = Drop(ui.calls, k))
            => ui'.status # "speaking" /\ ui'.synthesis = ui.synthesis]_vars

\* C14: the loop has at most one request in flight, and while one is in
\* flight the dictation engine is at rest.
C14_OneRequestInFlight ==
    /\ Len(ui.calls) <= 1
    /\ ui.calls # <<>> => ui.recognition = "idle"

\* C15: after the user has stopped dictation by hand, the engine's end is
\* handled with the manual flag set: what was finalized is delivered once
\* (the overlay sends one request for it), the engine is not started again
\* and isListening becomes false; so once every engine instance of the
\* stopped session is at rest, isListening is false.
C15_ManualStop ==
    /\ [][(ui.stopped /\ ui'.shape = Append(ui.shape, "manualEnd"))
            => /\ ui'.recognition = "idle"
               /\ ~ui'.isListening
               /\ Len(ui'.calls) = Len(ui.calls)
                    + (IF Trim(ui.finalTranscriptRef) # <<>> THEN 1 ELSE 0)]_vars
    /\ []((ui.stopped /\ ui.recognition = "idle" /\ ui.disposed = 0)
            => ~ui.isListening)

\* C16: when the engine ends and the stop was not manual, a continuous
\* session starts the engine again in that step with the finalized text
\* kept and isListening as it was, and a session that is not continuous
\* delivers what was finalized and becomes idle; so a continuous session
\* the user has neither stopped nor typed into has an engine for as long
\* as it shows that it listens.
C16_UnintendedEnd ==
    /\ [][(ui'.shape = Append(ui.shape, "end"))
            => IF Continuous(ui)
               THEN /\ ui'.recognition = "starting"
                    /\ ui'.finalTranscriptRef = ui.finalTranscriptRef
                    /\ ui'.isListening = ui.isListening
               ELSE /\ ui'.recognition = "idle"
                    /\ ~ui'.isListening
                    /\ Len(ui'.calls) = Len(ui.calls)
                         + (IF Trim(ui.finalTranscriptRef) # <<>> THEN 1 ELSE 0)]_vars
    /\ []((Continuous(ui) /\ ui.isListening /\ ~ui.stopped /\ ui.typed = 0)
            => ui.recognition # "idle")

\* The session has had an error event with this code since the user
\* started it.
Reported(c, error) == \E i \in DOMAIN c.shape : c.shape[i] = error

\* C17: a fatal error of the engine ("not-allowed") makes isListening false
\* and is passed to onError in that step (ChatArea keeps the text of the
\* input box); from then on, the end event that follows included, the
\* session stays idle and its engine is not started again, although
\* continuous is true.
C17_FatalError ==
    /\ [][(ui'.shape = Append(ui.shape, "not-allowed"))
            => /\ ~ui'.isListening
               /\ ui'.initialSpeechInputRef = ui'.typedInput
               /\ ui'.typedInput \in {ui.rendered.mergedInput, ui.rendered.typedInput}]_vars
    /\ [](Reported(ui, "not-allowed")
            => ~ui.isListening /\ ui.recognition \in {"failing", "idle"})

\* The engine has ended after a fatal error, and its end was handled.
C17_Witness ==
    /\ Continuous(ui)
    /\ \E i \in DOMAIN ui.shape :
         /\ ui.shape[i] = "not-allowed"
         /\ i < Len(ui.shape)
         /\ ui.shape[i + 1] = "manualEnd"
    /\ ui.recognition = "idle"

Last(s) == s[Len(s)]

\* The step appends this event to the session's history.
Adds(event) == ui'.shape = Append(ui.shape, event)

\* C18: a recoverable error of the engine ("network") is not passed to
\* onError and changes neither isListening nor the manual flag: of the
\* component only the engine's state changes.  The end event that follows
\* it, the user not having stopped the session, is handled as an end the
\* engine imposed: the continuous session starts the engine again.
C18_RecoverableError ==
    [][/\ Adds("network")
            => /\ ui'.isListening = ui.isListening
               /\ ui'.isManualStopRef = ui.isManualStopRef
               /\ ui'.typedInput = ui.typedInput
               /\ ui'.initialSpeechInputRef = ui.initialSpeechInputRef
               /\ ui'.status = ui.status
               /\ ui'.errorTimers = ui.errorTimers
       /\ (/\ ui.shape # <<>>
           /\ Last(ui.shape) = "network"
           /\ ~ui.stopped
           /\ (Adds("end") \/ Adds("manualEnd")))
            => /\ Adds("end")
               /\ ui'.recognition = "starting"
               /\ ui'.isListening = ui.isListening]_vars

\* The engine has ended after a recoverable error that came while the user
\* was heard, and has been started again.
C18_Witness ==
    /\ Continuous(ui)
    /\ ui.transcript # <<>>
    /\ Len(ui.shape) >= 2
    /\ ui.shape[Len(ui.shape) - 1] = "network"
    /\ Last(ui.shape) = "end"
    /\ ui.recognition = "starting"
    /\ ui.isListening

\* The step is a render.
Renders == Dirty(ui) /\ ui'.rendered = View(ui) /\ ~ui'.fresh

\* A render of this component runs the hook's effect again.
RunsEffect(c) == c.host = "overlay" \/ c.typedInput # c.rendered.typedInput

\* C19: whenever the hook's effect is cleaned up, whatever the engine is
\* doing, the manual flag is set and the instance is stopped and detached
\* (it is counted as disposed if it has an end event to come); and the end
\* of a disposed instance changes nothing of the component: no callback
\* runs, isListening and the transcript stay, no engine is started.
C19_Teardown ==
    [][/\ (Renders /\ RunsEffect(ui))
            => /\ ui'.isManualStopRef
               /\ ui'.recognition = "idle"
               /\ ui'.disposed = ui.disposed + (IF ui.recognition = "idle" THEN 0 ELSE 1)
       /\ (ui'.disposed < ui.disposed)
            => ui' = [ui EXCEPT !.disposed = ui'.disposed]]_vars

\* An instance that had started was disposed while the component showed
\* that it listens, and has ended since.
C19_Witness ==
    /\ ui.host = "overlay"
    /\ ui.isListening
    /\ ui.rendered.isListening
    /\ ui.isManualStopRef
    /\ ui.recognition = "idle"
    /\ ui.disposed = 0
    /\ ui.toggles = 1

\* C20: the speech synthesis of the browser holds at most one utterance,
\* playing or queued, at any time.
C20_OneUtterance == Len(ui.synthesis) <= 1

\* The messages are user, model, user, model, ...
Alternates(messages) ==
    \A k \in DOMAIN messages :
        messages[k].role = (IF IsEven(k) THEN "model" ELSE "user")

\* The history task of invocation i has written its exchange.
Saved(i) == req[i].status = 200 /\ req[i].drain = "saved"

\* C21: when two exchanges of the same conversation have both been written,
\* the second having been posted after the first (possibly before the
\* first's history task had finished), the stored messages are those of the
\* first exchange followed by those of the second, each user message
\* directly followed by its answer.
C21_WritesSerialized ==
    \A i, j \in Reqs :
        (/\ i < j
         /\ Saved(i) /\ Saved(j)
         /\ req[i].chatId = req[j].chatId
         /\ req[i].chatId \in DOMAIN store)
        => LET messages == store[req[i].chatId].messages
           IN /\ Alternates(messages)
              /\ \A k \in DOMAIN messages :
                    messages[k].id = req[j].upd.modelMsgId => k = Len(messages)

\* updateConversation has been called by the history task of r and has
\* passed its access check.
Called(r) == r.drain \in {"updWrite", "saved", "writeFailed"}

\* C22: the history task of an exchange answered 200 calls
\* updateConversation when it has read its branch to the end of a stream
\* that was closed, not before and not a second time; the call carries the
\* user's message and the whole text the source produced; and once the
\* stream has ended normally the call is made.
C22_OneUpdateAfterEnd ==
    /\ [][\A i \in Reqs :
            /\ (req'[i].drain = "updGet" /\ req[i].drain # "updGet")
                 => /\ req[i].drain = "reading"
                    /\ req[i].status = 200
                    /\ req[i].up = "closed"
                    /\ req[i].histQ = <<>>
                    /\ req[i].full = Flatten(req[i].yielded)
            /\ (HistoryAtEnd(req[i]) /\ req[i].drain # "updGet")
                 => req'[i].drain \notin {"reading", "updGet"}]_vars
    /\ [](\A i \in Reqs :
            Called(req[i]) => /\ req[i].upd.modelText = Flatten(req[i].yielded)
                              /\ req[i].upd.userText = req[i].msg)
    /\ \A i \in {1} :
         (req[i].status = 200 /\ req[i].up = "closed") ~> HistoryAtEnd(req[i])

\* An exchange whose answer came in several chunks has been written.
C22_Witness ==
    \E i \in Reqs :
        /\ req[i].status = 200
        /\ req[i].drain = "saved"
        /\ Len(req[i].yielded) = MaxChunks
        /\ req[i].upd.modelText # <<>>

\* updateConversation has thrown in the history task of r: its access check
\* or its write failed.
WriteFailed(r) == r.drain \in {"denied", "writeFailed"}

\* C23: when updateConversation fails in the history task, the step changes
\* nothing but the state of that task (the catch logs the error): status
\* 200, the X-Chat-ID header, the chunks the client branch has delivered and
\* those it still holds stay, and so does the store; afterwards the status
\* and the header stay as they are, what was delivered is not taken back,
\* and the task is over.
C23_WriteFailureIsolated ==
    [][\A i \in Reqs :
         /\ (WriteFailed(req'[i]) /\ ~WriteFailed(req[i]))
              => /\ req'[i] = [req[i] EXCEPT !.drain = req'[i].drain]
                 /\ req[i].status = 200
                 /\ store' = store
         /\ WriteFailed(req[i])
              => /\ req'[i].status = 200
                 /\ req'[i].header = req[i].chatId
                 /\ IsPrefix(req[i].clientGot, req'[i].clientGot)
                 /\ req'[i].drain = req[i].drain]_vars

\* The write has failed and the client branch has then been read to its
\* end.
C23_Witness ==
    \E i \in Reqs :
        /\ req[i].drain = "writeFailed"
        /\ req[i].client = "done"
        /\ req[i].status = 200
        /\ Len(req[i].clientGot) >= 2

\* The step is a press of the microphone button that starts dictation.
StartsDictation == ui'.toggles = ui.toggles + 1 /\ ~ui.rendered.isListening

\* C24: startListening, called while the session is idle, leaves the
\* finalized text of the hook empty, whatever seed text it is given, clears
\* the manual flag and starts the engine.
C24_StartResets ==
    [][(StartsDictation /\ ui.recognition = "idle")
         => /\ ui'.finalTranscriptRef = <<>>
            /\ ~ui'.isManualStopRef
            /\ ui'.recognition = "starting"]_vars

\* The step runs a restart timer while the session listens, with the
\* startListening of a render that saw it listening.
RestartsWhileListening ==
    /\ ui.restartTimers # <<>>
    /\ Head(ui.restartTimers).isListening
    /\ ui.isListening
    /\ ui'.restartTimers = Tail(ui.restartTimers)

\* C25: startListening called while the session listens is not without
\* effect: it stops the engine or starts it again.
C25_StartWhileListening ==
    [][(RestartsWhileListening /\ ui.recognition \in {"idle", "starting", "started"})
         => ui'.recognition # ui.recognition]_vars

\* Since it was started the session has had result events only.
IsResult(e) == e \in {"final", "interim"}

OnlyResults(c) == SelectSeq(c.shape, IsResult) = c.shape

\* The interim text of the latest result event.
LiveInterim(c) ==
    IF c.shape # <<>> /\ Last(c.shape) = "interim" THEN Interim ELSE <<>>

\* A text with its runs of spaces reduced to one space and trimmed.
SingleSpaced(s) == JoinSp(Words(s))

\* C26: while a session listens that has had no event but results, the
\* input box shows the seed text, the finalized fragments in the order they
\* came and the latest interim text, each once, separated by spaces.
C26_MergedTranscript ==
    (ui.isListening /\ ~Dirty(ui) /\ OnlyResults(ui))
    => SingleSpaced(ui.rendered.mergedInput)
         = SingleSpaced(ui.seed \o <<" ">> \o JoinSp(ui.heard) \o <<" ">> \o LiveInterim(ui))

\* C27: the finalized text of the hook only grows unless a press of the
\* microphone starts dictation: a final result appends its text and a
\* space, an interim result and an end imposed by the engine (after which
\* the continuous session starts the engine again) leave it as it is.
C27_AccumulatorGrows ==
    [][/\ ~StartsDictation => IsPrefix(ui.finalTranscriptRef, ui'.finalTranscriptRef)
       /\ Adds("final")
            => ui'.finalTranscriptRef
                 = ui.finalTranscriptRef \o Last(ui'.heard) \o <<" ">>
       /\ (Adds("interim") \/ Adds("end"))
            => ui'.finalTranscriptRef = ui.finalTranscriptRef]_vars

\* Two fragments were finalized in a session the engine has ended and that
\* has had an interim result.
C27_Witness ==
    /\ Continuous(ui)
    /\ Reported(ui, "end")
    /\ Reported(ui, "interim")
    /\ Len(ui.heard) >= 2
    /\ ui.finalTranscriptRef = JoinSp(ui.heard) \o <<" ">>
    /\ ui.recognition = "started"

\* C28: when the engine ends while the loop listens and what was finalized
\* is not blank, the loop thinks after that step and has sent one more
\* request, which carries the transcript; and the end of the engine does
\* not make a thinking loop idle.
C28_ListeningToThinking ==
    [][((Adds("end") \/ Adds("manualEnd"))
          /\ ui.status = "listening"
          /\ Trim(ui.finalTranscriptRef) # <<>>)
         => /\ ui'.status = "thinking"
            /\ Len(ui'.calls) = Len(ui.calls) + 1
            /\ Last(ui'.calls).text = Trim(ui.finalTranscriptRef)]_vars

\* The step is a press of the microphone button while the overlay shows
\* that it listens.
StopsLoop ==
    /\ ui'.toggles = ui.toggles + 1
    /\ ui.rendered.isListening
    /\ ~ui.rendered.isAiSpeaking
    /\ ui.status = "listening"

\* C29: pressing the microphone while the loop listens makes the phase idle
\* and leaves no engine started or starting; from then on, until the
\* microphone is pressed again, the phase stays idle and no engine starts.
C29_InterruptWhileListening ==
    [][/\ StopsLoop
            => /\ ui'.status = "idle"
               /\ ui'.stopped
               /\ ui'.recognition \notin {"starting", "started"}
       /\ (ui.stopped /\ ui.status = "idle" /\ ui'.toggles = ui.toggles)
            => /\ ui'.status = "idle"
               /\ ui'.recognition \notin {"starting", "started"}]_vars


\* A request of handleUserSpeechEnd fails in this step.
Fails == \E k \in DOMAIN ui.calls : ui' = requestFailed([ui EXCEPT !.calls = Drop(@, k)])

\* C30: a request that fails puts the loop in the error phase, and whenever
\* the phase is error it is idle again some time later, however the error
\* phase was entered.
C30_ErrorReturnsToIdle ==
    /\ [][Fails => ui'.status = "error"]_vars
    /\ (ui.status = "error") ~> (ui.status = "idle")

\* C38: a POST answered with another status than 200 has left the store as
\* it found it (in Spec: empty); it has created no conversation and
\* appended no message.
C38_FailureLeavesStore ==
    \A i \in Reqs : req[i].status \notin {0, 200} => store = <<>>

\* C34: whenever the hook reports isListening, the engine instance it
\* holds is running (starting, started, or about to deliver its end), so
\* that an end event will return isListening to false.
C34_ListeningHasEngine == ui.isListening => ui.recognition # "idle"

\* The 5 second timer of an error fires in this step.
ErrorTimerFires ==
    /\ ui.errorTimers # <<>>
    /\ ui'.errorTimers = Tail(ui.errorTimers)

\* C36: the timer armed by an error changes the phase only when the phase
\* is still error.
C36_ResetOnlyFromError ==
    [][(ErrorTimerFires /\ ui.status # "error") => ui'.status = ui.status]_vars

\* The session that started last is over: the hook no longer listens and
\* the engine instance it holds is at rest.
SessionOver == ui.session /\ ~ui.isListening /\ ui.recognition = "idle"

\* C35: in every dictation session onEnd is called at most once and
\* onFinalTranscript at most once, and when the session is over onEnd has
\* been called exactly once.
C35_OneEndPerSession ==
    /\ ui.onEndCalls <= 1
    /\ ui.onFinalCalls <= 1
    /\ SessionOver => ui.onEndCalls = 1

\* A request of the loop resolves successfully in this step.
Resolves ==
    \E k \in DOMAIN ui.calls :
        /\ ui.calls[k].stage = "fetch"
        /\ ui'.calls = Drop(ui.calls, k)
        /\ ui'.fetches = ui.fetches
        /\ ui'.errorTimers = ui.errorTimers

\* C37: a request that resolves successfully puts the loop in the speaking
\* phase, and the phase is thinking only while a request is in flight,
\* whether or not the browser has speech synthesis.
C37_ResolvedLeavesThinking ==
    /\ [][(ui.host = "overlay" /\ Resolves) => ui'.status = "speaking"]_vars
    /\ [](ui.host = "overlay" /\ ui.status = "thinking" => ui.calls # <<>>)

C37_Witness ==
    /\ ui.host = "overlay"
    /\ ui.status = "speaking"
    /\ ui.isAiSpeaking
    /\ ui.calls = <<>>

\* C33: the hook of the chat view and the hook of the conversation overlay
\* never report isListening at the same time.
C33_OneSessionListens ==
    ~(ui.open /\ ui.chat.isListening /\ ui.overlay.isListening)

\* Run k of handleSendMessage ends in this step by finalizing its message.
Finalizes(k) == ui.runs[k].pc # "done" /\ ui'.runs[k].pc = "done"

Ids(messages) == { messages[n].id : n \in DOMAIN messages }

\* C31: the message list of the chat view never holds more than one
\* placeholder, and a finalization that finds the placeholder puts in its
\* place a message with a fresh id and the final text and leaves the
\* messages before it as they were.
C31_OnePlaceholder ==
    /\ [](Cardinality(PendingAt(ui.messages)) <= 1)
    /\ [][\A k \in DOMAIN ui.runs :
            (Finalizes(k) /\ PendingAt(ui.messages) # {}) =>
                LET n == findIndex(ui.messages) IN
                    /\ n = Len(ui'.messages)
                    /\ ui'.messages[n].id \notin Ids(ui.messages)
                    /\ ui'.messages[n].text = ui'.runs[k].final
                    /\ SubSeq(ui'.messages, 1, n - 1) = SubSeq(ui.messages, 1, n - 1)]_vars

\* Run k ends in this step on a path that failed: the text it finalizes is
\* not the text it has read.
EndsFailed(k) == Finalizes(k) /\ ui'.runs[k].final # ui.runs[k].acc

\* C32: when reading the response fails after text has arrived, the
\* assistant slot holds that text followed by a failure notice; when the
\* request fails before any text, the slot holds an error text and is not
\* empty.
C32_FailureKeepsText ==
    [][\A k \in DOMAIN ui.runs :
         (EndsFailed(k) /\ PendingAt(ui.messages) # {}) =>
            LET slot == ui'.messages[Len(ui'.messages)].text
                arrived == ui.runs[k].acc
            IN /\ slot # <<>>
               /\ arrived # <<>> =>
                    /\ Len(slot) > Len(arrived)
                    /\ SubSeq(slot, 1, Len(arrived)) = arrived]_vars

\* Run k has added its placeholder and has not ended.
Running(k) == k \in DOMAIN ui.runs /\ ui.runs[k].added /\ ui.runs[k].pc # "done"

Ended(k) == k \in DOMAIN ui.runs /\ ui.runs[k].pc = "done"

\* C39: every run of handleSendMessage that has added its placeholder
\* ends, and at the moment it ends isLoading is false and the message list
\* holds no placeholder.
C39_RunEndsClean ==
    /\ [][\A k \in DOMAIN ui.runs :
            Finalizes(k) => /\ ~ui'.isLoading
                            /\ PendingAt(ui'.messages) = {}]_vars
    /\ \A k \in 1..MaxSends : Running(k) ~> Ended(k)

C39_Witness ==
    /\ \E k \in DOMAIN ui.runs : ui.runs[k].added /\ ui.runs[k].pc = "done"
    /\ \E k \in DOMAIN ui.runs : ui.runs[k].final = SessionExpired
    /\ ~ui.isLoading

====
